---- MODULE Spec2Model ----
(***************************************************************************)
(* Model of the acai-travel-challenge observability layer and of the       *)
(* concurrent StartConversation orchestration:                             *)
(*   - internal/httpx/metrics.go : MetricsMiddleware, statusCapturingWriter*)
(*   - internal/httpx/otel.go    : InitTelemetry and its Shutdown closure   *)
(*   - README.md (Task 1 bonus)  : StartConversation with two goroutines    *)
(* Strings are sequences of characters, so that strings.TrimSpace is       *)
(* computed and not assumed.                                               *)
(***************************************************************************)
EXTENDS Integers, Sequences, FiniteSets, Bags, TLC

\* ------------------------------------------------------------------ bounds
\* longest string the Title collaborator returns
MaxLen == 2

\* number of requests that go through the middleware, possibly overlapping
NumRequests == 2
\* largest elapsed time, in milliseconds, a request is observed to take
MaxElapsed == 1
\* most ResponseWriter calls of a handler whose calls are logged one by one
MaxCalls == 2

\* number of times the Shutdown closure is invoked
MaxShutdownCalls == 2

\* ------------------------------------------------------------------ state
\* StartConversation (README.md)
VARIABLES
  opc,           \* position of the orchestrating routine
  tpc,           \* position of the title goroutine
  rpc,           \* position of the reply goroutine
  titleCh,       \* chan string, capacity 1
  replyCh,       \* chan struct{val string; err error}, capacity 1
  titleOut,      \* (title, err) returned by s.assist.Title
  replyOut,      \* (reply, err) returned by s.assist.Reply
  title,         \* orchestrator local: title := <-titleCh
  replyResult,   \* orchestrator local: replyResult := <-replyCh
  reply,         \* orchestrator local: reply := replyResult.val
  conversation,  \* the conversation; Title is the field the snippet writes
  convWrites,    \* who wrote conversation.Title, in order
  delivered,     \* which channel got its value, in the order of the sends
  startRet,      \* <<(conversation, error)>> once the early return is taken
  conversation0, \* the conversation StartConversation was entered with
  now,           \* logical time
  titleStart,    \* logical time at which the title goroutine was started
  replyStart     \* logical time at which the reply goroutine was started

ovars == <<opc, tpc, rpc, titleCh, replyCh, titleOut, replyOut, title,
           replyResult, reply, conversation, convWrites, delivered, startRet,
           conversation0, now, titleStart, replyStart>>

\* MetricsMiddleware (internal/httpx/metrics.go)
VARIABLES
  mpc,               \* per request: position inside the middleware closure
  sw,                \* per request: the statusCapturingWriter
  sink,              \* per request: the wrapped http.ResponseWriter
  called,            \* per request: the ResponseWriter methods the handler called
  attrs,             \* per request: the attribute set built after the handler
  invocations,       \* per request: number of calls of next.ServeHTTP
  handlerCalls,      \* per request: the calls the handler made, when logged
  sinkCalls,         \* per request: the calls the wrapped writer received, when logged
  instruments,       \* what init() left in reqCounter, errCounter, latencyHistogram
  reqCounter,        \* http.server.requests: bag of attribute sets added with +1
  errCounter,        \* http.server.errors: bag of attribute sets added with +1
  latencyHistogram   \* http.server.duration.ms: bag of (attribute set, value)

mvars == <<mpc, sw, sink, called, attrs, invocations, handlerCalls, sinkCalls,
           instruments, reqCounter, errCounter, latencyHistogram>>

\* InitTelemetry and the Shutdown closure (internal/httpx/otel.go)
VARIABLES
  ipc,                    \* position inside InitTelemetry
  serviceName,            \* argument of InitTelemetry
  globalMeterProvider,    \* what otel.SetMeterProvider installed process-wide
  globalTracerProvider,   \* what otel.SetTracerProvider installed process-wide
  initRet,                \* <<(Shutdown, error)>> once InitTelemetry has returned
  spc,                    \* position inside the Shutdown closure
  shutCalls,              \* number of invocations of the closure so far
  shutLog,                \* provider shutdowns attempted, all invocations, in order
  shutRet                 \* error returned by each completed invocation, in order

tvars == <<ipc, serviceName, globalMeterProvider, globalTracerProvider, initRet,
           spc, shutCalls, shutLog, shutRet>>

vars == <<ovars, mvars, tvars>>

\* ------------------------------------------------------------ Go constants
Nil == "nil"

\* ---------------------------------------------------------------- strings
Alphabet == {" ", "\t", "a"}

IsSpace(c) == c \in {" ", "\t"}

RECURSIVE StringsUpTo(_)
StringsUpTo(n) ==
  IF n = 0 THEN {<<>>}
  ELSE LET shorter == StringsUpTo(n - 1)
       IN  shorter \cup {Append(s, c) : s \in {t \in shorter : Len(t) = n - 1}, c \in Alphabet}

Strings == StringsUpTo(MaxLen)

RECURSIVE TrimLeft(_)
TrimLeft(s) ==
  IF s = <<>> THEN <<>>
  ELSE IF IsSpace(Head(s)) THEN TrimLeft(Tail(s)) ELSE s

RECURSIVE TrimRight(_)
TrimRight(s) ==
  IF s = <<>> THEN <<>>
  ELSE IF IsSpace(s[Len(s)]) THEN TrimRight(SubSeq(s, 1, Len(s) - 1)) ELSE s

\* strings.TrimSpace: drop leading and trailing white space
TrimSpace(s) == TrimRight(TrimLeft(s))

\* =========================================================================
\* StartConversation (README.md, concurrent snippet)
\* =========================================================================
ChanCap == 1

\* the literal "Untitled conversation"
UntitledConversation == <<"Untitled", " ", "conversation">>

TitleErrs == {"title_err"}
ReplyErrs == {"reply_err_a", "reply_err_b"}
Replies   == {<<>>, <<"a">>}

\* conversation.Title before the call (not set by the snippet)
InitialTitles == {<<>>, UntitledConversation}

NoResult == [val |-> <<>>, err |-> Nil]

\* twirp.InternalErrorWith(err)
InternalErrorWith(e) == [code |-> "internal", cause |-> e]

\* variant of TitleToSend: compares with "" without strings.TrimSpace
TitleToSendUntrimmed(t, e) ==
  IF e # Nil \/ t = <<>> THEN UntitledConversation ELSE t

\* variant of TitleToSend: sends the trimmed title
TitleToSendTrimmed(t, e) ==
  IF e # Nil \/ TrimSpace(t) = <<>> THEN UntitledConversation ELSE TrimSpace(t)

\* lines 161-166: what the title goroutine puts on titleCh
TitleToSend(t, e) ==
  IF e # Nil \/ TrimSpace(t) = <<>> THEN UntitledConversation ELSE t

\* variant of ReplyFailed: looks at the value instead of the error
ReplyFailedOnEmptyVal(res) == res.val = <<>>

\* line 181: replyResult.err != nil
ReplyFailed(res) == res.err # Nil

\* README.md lines 114-128, the sequential StartConversation that the
\* concurrent snippet replaced: the title is assigned when Title returned no
\* error (whatever the string), and the error of Reply is returned as it is.
StartConversationSequential(conv, titleRes, replyRes) ==
  LET titled == IF titleRes.err # Nil THEN conv
                ELSE [conv EXCEPT !.Title = titleRes.val]
  IN  IF replyRes.err # Nil
        THEN [failed |-> TRUE, err |-> replyRes.err, title |-> titled.Title, reply |-> <<>>]
        ELSE [failed |-> FALSE, err |-> Nil, title |-> titled.Title, reply |-> replyRes.val]

OInit ==
  /\ opc = "goTitle"
  /\ tpc = "idle"
  /\ rpc = "idle"
  /\ titleCh = <<>>
  /\ replyCh = <<>>
  /\ titleOut = NoResult
  /\ replyOut = NoResult
  /\ title = <<>>
  /\ replyResult = NoResult
  /\ reply = <<>>
  /\ conversation \in {[Title |-> t] : t \in InitialTitles}
  /\ convWrites = <<>>
  /\ delivered = <<>>
  /\ startRet = <<>>
  /\ conversation0 = conversation
  /\ now = 0
  /\ titleStart = 0
  /\ replyStart = 0

\* line 159: go func() { ... Title ... }()
GoTitle ==
  /\ opc = "goTitle"
  /\ tpc = "idle"
  /\ opc' = "goReply"
  /\ tpc' = "call"
  /\ UNCHANGED <<rpc, titleCh, replyCh, titleOut, replyOut, title,
                 replyResult, reply, conversation, convWrites, delivered, startRet>>
  /\ UNCHANGED <<mvars, tvars>>
  /\ titleStart' = now
  /\ UNCHANGED <<conversation0, now, replyStart>>

\* variant of GoReply: the reply is started when the title goroutine is over
GoReplyAfterTitle ==
  /\ opc = "goReply"
  /\ rpc = "idle"
  /\ tpc = "done"
  /\ opc' = "recvTitle"
  /\ rpc' = "call"
  /\ UNCHANGED <<tpc, titleCh, replyCh, titleOut, replyOut, title,
                 replyResult, reply, conversation, convWrites, delivered, startRet>>
  /\ UNCHANGED <<mvars, tvars>>
  /\ replyStart' = now
  /\ UNCHANGED <<conversation0, now, titleStart>>

\* line 170: go func() { ... Reply ... }()
GoReply ==
  /\ opc = "goReply"
  /\ rpc = "idle"
  /\ opc' = "recvTitle"
  /\ rpc' = "call"
  /\ UNCHANGED <<tpc, titleCh, replyCh, titleOut, replyOut, title,
                 replyResult, reply, conversation, convWrites, delivered, startRet>>
  /\ UNCHANGED <<mvars, tvars>>
  /\ replyStart' = now
  /\ UNCHANGED <<conversation0, now, titleStart>>

\* line 160: title, err := s.assist.Title(ctx, conversation)
TitleCall ==
  /\ tpc = "call"
  /\ \E t \in Strings, e \in {Nil} \cup TitleErrs :
        titleOut' = [val |-> t, err |-> e]
  /\ tpc' = "send"
  /\ UNCHANGED <<opc, rpc, titleCh, replyCh, replyOut, title,
                 replyResult, reply, conversation, convWrites, delivered, startRet>>
  /\ UNCHANGED <<mvars, tvars>>
  /\ UNCHANGED <<conversation0, now, titleStart, replyStart>>

\* variant of TitleSend: the title goroutine also assigns conversation.Title
TitleSendAndAssign ==
  /\ tpc = "send"
  /\ Len(titleCh) < ChanCap
  /\ titleCh' = Append(titleCh, TitleToSend(titleOut.val, titleOut.err))
  /\ delivered' = Append(delivered, "titleCh")
  /\ conversation' = [conversation EXCEPT !.Title = TitleToSend(titleOut.val, titleOut.err)]
  /\ convWrites' = Append(convWrites, "titleGoroutine")
  /\ tpc' = "done"
  /\ UNCHANGED <<opc, rpc, replyCh, titleOut, replyOut, title,
                 replyResult, reply, startRet>>
  /\ UNCHANGED <<mvars, tvars>>
  /\ UNCHANGED <<conversation0, now, titleStart, replyStart>>

\* lines 161-166: titleCh <- fallback or title; the send blocks on a full channel
TitleSend ==
  /\ tpc = "send"
  /\ Len(titleCh) < ChanCap
  /\ titleCh' = Append(titleCh, TitleToSend(titleOut.val, titleOut.err))
  /\ delivered' = Append(delivered, "titleCh")
  /\ tpc' = "done"
  /\ UNCHANGED <<opc, rpc, replyCh, titleOut, replyOut, title,
                 replyResult, reply, conversation, convWrites, startRet>>
  /\ UNCHANGED <<mvars, tvars>>
  /\ UNCHANGED <<conversation0, now, titleStart, replyStart>>

\* line 171: reply, err := s.assist.Reply(ctx, conversation)
ReplyCall ==
  /\ rpc = "call"
  /\ \E v \in Replies, e \in {Nil} \cup ReplyErrs :
        replyOut' = [val |-> v, err |-> e]
  /\ rpc' = "send"
  /\ UNCHANGED <<opc, tpc, titleCh, replyCh, titleOut, title,
                 replyResult, reply, conversation, convWrites, delivered, startRet>>
  /\ UNCHANGED <<mvars, tvars>>
  /\ UNCHANGED <<conversation0, now, titleStart, replyStart>>

\* variant of ReplySend: a failed reply ends the goroutine without a send
ReplySendOnSuccessOnly ==
  /\ rpc = "send"
  /\ IF replyOut.err # Nil
       THEN UNCHANGED <<replyCh, delivered>>
       ELSE /\ Len(replyCh) < ChanCap
            /\ replyCh' = Append(replyCh, replyOut)
            /\ delivered' = Append(delivered, "replyCh")
  /\ rpc' = "done"
  /\ UNCHANGED <<opc, tpc, titleCh, titleOut, replyOut, title,
                 replyResult, reply, conversation, convWrites, startRet>>
  /\ UNCHANGED <<mvars, tvars>>
  /\ UNCHANGED <<conversation0, now, titleStart, replyStart>>

\* lines 172-175: replyCh <- struct{val, err}
ReplySend ==
  /\ rpc = "send"
  /\ Len(replyCh) < ChanCap
  /\ replyCh' = Append(replyCh, replyOut)
  /\ delivered' = Append(delivered, "replyCh")
  /\ rpc' = "done"
  /\ UNCHANGED <<opc, tpc, titleCh, titleOut, replyOut, title,
                 replyResult, reply, conversation, convWrites, startRet>>
  /\ UNCHANGED <<mvars, tvars>>
  /\ UNCHANGED <<conversation0, now, titleStart, replyStart>>

\* variant of RecvTitle: a receive that does not block on an empty channel
RecvTitleNonBlocking ==
  /\ opc = "recvTitle"
  /\ IF titleCh # <<>>
       THEN title' = Head(titleCh) /\ titleCh' = Tail(titleCh)
       ELSE title' = <<>> /\ titleCh' = titleCh
  /\ opc' = "recvReply"
  /\ UNCHANGED <<tpc, rpc, replyCh, titleOut, replyOut,
                 replyResult, reply, conversation, convWrites, delivered, startRet>>
  /\ UNCHANGED <<mvars, tvars>>
  /\ UNCHANGED <<conversation0, now, titleStart, replyStart>>

\* line 179: title := <-titleCh
RecvTitle ==
  /\ opc = "recvTitle"
  /\ titleCh # <<>>
  /\ title' = Head(titleCh)
  /\ titleCh' = Tail(titleCh)
  /\ opc' = "recvReply"
  /\ UNCHANGED <<tpc, rpc, replyCh, titleOut, replyOut,
                 replyResult, reply, conversation, convWrites, delivered, startRet>>
  /\ UNCHANGED <<mvars, tvars>>
  /\ UNCHANGED <<conversation0, now, titleStart, replyStart>>

\* line 180: replyResult := <-replyCh
RecvReply ==
  /\ opc = "recvReply"
  /\ replyCh # <<>>
  /\ replyResult' = Head(replyCh)
  /\ replyCh' = Tail(replyCh)
  /\ opc' = "check"
  /\ UNCHANGED <<tpc, rpc, titleCh, titleOut, replyOut, title,
                 reply, conversation, convWrites, delivered, startRet>>
  /\ UNCHANGED <<mvars, tvars>>
  /\ UNCHANGED <<conversation0, now, titleStart, replyStart>>

\* lines 181-184: return nil, twirp.InternalErrorWith(err)  or  reply := val
CheckReply ==
  /\ opc = "check"
  /\ IF ReplyFailed(replyResult)
       THEN /\ startRet' = <<[conv |-> Nil, err |-> InternalErrorWith(replyResult.err)]>>
            /\ opc' = "returned"
            /\ UNCHANGED reply
       ELSE /\ reply' = replyResult.val
            /\ opc' = "assign"
            /\ UNCHANGED startRet
  /\ UNCHANGED <<tpc, rpc, titleCh, replyCh, titleOut, replyOut, title,
                 replyResult, conversation, convWrites, delivered>>
  /\ UNCHANGED <<mvars, tvars>>
  /\ UNCHANGED <<conversation0, now, titleStart, replyStart>>

\* line 186: conversation.Title = title
AssignTitle ==
  /\ opc = "assign"
  /\ conversation' = [conversation EXCEPT !.Title = title]
  /\ convWrites' = Append(convWrites, "orchestrator")
  /\ opc' = "assigned"
  /\ UNCHANGED <<tpc, rpc, titleCh, replyCh, titleOut, replyOut, title,
                 replyResult, reply, delivered, startRet>>
  /\ UNCHANGED <<mvars, tvars>>
  /\ UNCHANGED <<conversation0, now, titleStart, replyStart>>

ONext ==
  \/ GoTitle \/ GoReply
  \/ TitleCall \/ TitleSend
  \/ ReplyCall \/ ReplySend
  \/ RecvTitle \/ RecvReply
  \/ CheckReply \/ AssignTitle

\* -------------------------------------------------------------------------
\* The same snippet with logical time: Title and Reply take a fixed time to
\* return, every other step takes none.
\* -------------------------------------------------------------------------
TitleLatency == 100
ReplyLatency == 150

Max(a, b) == IF a >= b THEN a ELSE b

\* line 160 returns TitleLatency after the goroutine was started
TitleReturns ==
  /\ now = titleStart + TitleLatency
  /\ TitleCall

\* line 171 returns ReplyLatency after the goroutine was started
ReplyReturns ==
  /\ now = replyStart + ReplyLatency
  /\ ReplyCall

\* a step that takes no time: a go statement, a channel operation, a test,
\* an assignment
Instant ==
  \/ GoTitle
  \/ GoReply
  \/ TitleSend
  \/ ReplySend
  \/ RecvTitle
  \/ RecvReply
  \/ CheckReply
  \/ AssignTitle

\* time passes while a call is out and nothing else can run
Tick ==
  /\ ~ENABLED Instant
  /\ tpc = "call" \/ rpc = "call"
  /\ tpc = "call" => now < titleStart + TitleLatency
  /\ rpc = "call" => now < replyStart + ReplyLatency
  /\ now' = now + 1
  /\ UNCHANGED <<opc, tpc, rpc, titleCh, replyCh, titleOut, replyOut, title,
                 replyResult, reply, conversation, convWrites, delivered, startRet,
                 conversation0, titleStart, replyStart>>
  /\ UNCHANGED <<mvars, tvars>>

TimedNext ==
  \/ GoTitle
  \/ GoReply
  \/ TitleReturns
  \/ TitleSend
  \/ ReplyReturns
  \/ ReplySend
  \/ RecvTitle
  \/ RecvReply
  \/ CheckReply
  \/ AssignTitle
  \/ Tick

\* =========================================================================
\* MetricsMiddleware (internal/httpx/metrics.go)
\* =========================================================================

Reqs == 1 .. NumRequests

\* http.StatusOK
StatusOK == 200
\* the status codes handlers write
Codes == {200, 400}

Methods == <<"GET", "POST">>
Paths   == <<"/a", "/b">>
\* r.Method and r.URL.Path of request r
Method(r) == Methods[((r - 1) % Len(Methods)) + 1]
Path(r)   == Paths[((r - 1) % Len(Paths)) + 1]

NoAttrs == [method |-> "", route |-> "", status |-> 0]

\* the wrapped http.ResponseWriter: the first WriteHeader fixes the status,
\* later ones are ignored; Write sends an implicit 200 if no header was written
NewSink == [wroteHeader |-> FALSE, status |-> 0]

SinkWriteHeader(k, code) ==
  [wroteHeader |-> TRUE,
   status      |-> IF k.wroteHeader THEN k.status ELSE code]

SinkWrite(k) ==
  [wroteHeader |-> TRUE,
   status      |-> IF k.wroteHeader THEN k.status ELSE StatusOK]

\* the status the client sees once the handler has returned
ClientStatus(k) == IF k.wroteHeader THEN k.status ELSE StatusOK

\* variant of IsError: strict comparison
IsErrorAbove(status) == status > 400

\* line 52: sw.status >= 400
IsError(status) == status >= 400

\* variant of NewStatusCapturingWriter: status left at its zero value
NewStatusCapturingWriterZero == [status |-> 0]

\* line 40: &statusCapturingWriter{ResponseWriter: w, status: http.StatusOK}
NewStatusCapturingWriter == [status |-> StatusOK]

\* the three instruments of lines 11-15
InstrumentNames == {"reqCounter", "errCounter", "latencyHistogram"}

\* an instrument variable that holds no instrument: a call on it panics
NilInstrument == "nil"

\* variant of RegisterInstrument: a failed creation leaves the variable nil
RegisterInstrumentNil(creationFailed) ==
  IF creationFailed THEN NilInstrument ELSE "ok"

\* lines 19-24: x, _ = m.Int64Counter(...): the error is dropped and the
\* instrument the meter returned is kept; after a failed creation it does not
\* record
RegisterInstrument(creationFailed) ==
  IF creationFailed THEN "noop" ELSE "ok"

\* Add or Record of one observation on an instrument
Observe(instrument, observations, o) ==
  IF instrument = "ok" THEN observations (+) SetToBag({o}) ELSE observations

\* lines 17-25: init(), with the set of instruments whose creation failed
MInitWith(failed) ==
  /\ mpc = [r \in Reqs |-> "idle"]
  /\ sw = [r \in Reqs |-> [status |-> 0]]
  /\ sink = [r \in Reqs |-> NewSink]
  /\ called = [r \in Reqs |-> {}]
  /\ attrs = [r \in Reqs |-> NoAttrs]
  /\ invocations = [r \in Reqs |-> 0]
  /\ handlerCalls = [r \in Reqs |-> <<>>]
  /\ sinkCalls = [r \in Reqs |-> <<>>]
  /\ instruments = [n \in InstrumentNames |-> RegisterInstrument(n \in failed)]
  /\ reqCounter = EmptyBag
  /\ errCounter = EmptyBag
  /\ latencyHistogram = EmptyBag

\* init() when every instrument is created
MInit == MInitWith({})

\* lines 39-42: start := time.Now(); sw := &statusCapturingWriter{w, 200};
\* next.ServeHTTP(sw, r) is entered
MwBegin(r) ==
  /\ mpc[r] = "idle"
  /\ sw' = [sw EXCEPT ![r] = NewStatusCapturingWriter]
  /\ invocations' = [invocations EXCEPT ![r] = @ + 1]
  /\ mpc' = [mpc EXCEPT ![r] = "serving"]
  /\ UNCHANGED <<sink, called, attrs, reqCounter, errCounter, latencyHistogram>>
  /\ UNCHANGED <<ovars, tvars>>
  /\ UNCHANGED <<handlerCalls, sinkCalls, instruments>>

\* variant of ForwardedCode: the wrapped writer is always given 200
ForwardedCodeOK(code) == StatusOK

\* line 34: the code sw.WriteHeader passes on to the wrapped writer
ForwardedCode(code) == code

\* variant of SwWriteHeader: one statusCapturingWriter shared by all requests
SwWriteHeaderShared(r, code) ==
  /\ sw' = [q \in Reqs |-> [status |-> code]]
  /\ sink' = [sink EXCEPT ![r] = SinkWriteHeader(@, ForwardedCode(code))]
  /\ called' = [called EXCEPT ![r] = @ \cup {"WriteHeader"}]
  /\ UNCHANGED <<mpc, attrs, invocations, instruments,
                 reqCounter, errCounter, latencyHistogram>>
  /\ UNCHANGED <<ovars, tvars>>

\* lines 32-35: sw.WriteHeader(code) on the writer of request r
SwWriteHeader(r, code) ==
  /\ sw' = [sw EXCEPT ![r].status = code]
  /\ sink' = [sink EXCEPT ![r] = SinkWriteHeader(@, ForwardedCode(code))]
  /\ called' = [called EXCEPT ![r] = @ \cup {"WriteHeader"}]
  /\ UNCHANGED <<mpc, attrs, invocations, instruments,
                 reqCounter, errCounter, latencyHistogram>>
  /\ UNCHANGED <<ovars, tvars>>

\* line 28: sw.Write(body), promoted from the embedded ResponseWriter: the
\* body write goes to the wrapped writer without passing through sw
SwWrite(r) ==
  /\ sink' = [sink EXCEPT ![r] = SinkWrite(@)]
  /\ called' = [called EXCEPT ![r] = @ \cup {"Write"}]
  /\ UNCHANGED <<mpc, sw, attrs, invocations, instruments,
                 reqCounter, errCounter, latencyHistogram>>
  /\ UNCHANGED <<ovars, tvars>>

\* line 28: sw.Header().Set(...), promoted as well: the header map the
\* handler changes is the wrapped writer's
SwHeader(r) ==
  /\ called' = [called EXCEPT ![r] = @ \cup {"Header"}]
  /\ UNCHANGED <<mpc, sw, sink, attrs, invocations, instruments,
                 reqCounter, errCounter, latencyHistogram>>
  /\ UNCHANGED <<ovars, tvars>>

\* the handler calls sw.WriteHeader(code)
WriteHeader(r) ==
  /\ mpc[r] = "serving"
  /\ \E code \in Codes : SwWriteHeader(r, code)
  /\ UNCHANGED <<handlerCalls, sinkCalls>>

\* the handler calls sw.Write(body)
Write(r) ==
  /\ mpc[r] = "serving"
  /\ SwWrite(r)
  /\ UNCHANGED <<handlerCalls, sinkCalls>>

\* the header values a handler sets
HeaderValues == {"text/plain"}

\* the handler calls sw.WriteHeader(code); both ends of the call are logged
LoggedWriteHeader(r) ==
  /\ mpc[r] = "serving"
  /\ Len(handlerCalls[r]) < MaxCalls
  /\ \E code \in Codes :
        /\ SwWriteHeader(r, code)
        /\ handlerCalls' =
             [handlerCalls EXCEPT ![r] = Append(@, <<"WriteHeader", code>>)]
        /\ sinkCalls' =
             [sinkCalls EXCEPT ![r] = Append(@, <<"WriteHeader", ForwardedCode(code)>>)]

\* the handler calls sw.Write(body); both ends of the call are logged
LoggedWrite(r) ==
  /\ mpc[r] = "serving"
  /\ Len(handlerCalls[r]) < MaxCalls
  /\ SwWrite(r)
  /\ handlerCalls' = [handlerCalls EXCEPT ![r] = Append(@, <<"Write", "body">>)]
  /\ sinkCalls' = [sinkCalls EXCEPT ![r] = Append(@, <<"Write", "body">>)]

\* the handler calls sw.Header().Set(...); both ends of the call are logged
LoggedHeader(r) ==
  /\ mpc[r] = "serving"
  /\ Len(handlerCalls[r]) < MaxCalls
  /\ SwHeader(r)
  /\ \E h \in HeaderValues :
        /\ handlerCalls' = [handlerCalls EXCEPT ![r] = Append(@, <<"Header", h>>)]
        /\ sinkCalls' = [sinkCalls EXCEPT ![r] = Append(@, <<"Header", h>>)]

\* lines 42-48: next.ServeHTTP returns; attrs := {method, route, sw.status}
HandlerReturn(r) ==
  /\ mpc[r] = "serving"
  /\ attrs' = [attrs EXCEPT ![r] =
                 [method |-> Method(r), route |-> Path(r), status |-> sw[r].status]]
  /\ mpc' = [mpc EXCEPT ![r] = "reqAdd"]
  /\ UNCHANGED <<sw, sink, called, invocations, reqCounter, errCounter, latencyHistogram>>
  /\ UNCHANGED <<ovars, tvars>>
  /\ UNCHANGED <<handlerCalls, sinkCalls, instruments>>

\* variant of ReqAdd: counts only the requests that did not fail
ReqAddSkipsErrors(r) ==
  /\ mpc[r] = "reqAdd"
  /\ IF sw[r].status >= 400
       THEN UNCHANGED reqCounter
       ELSE reqCounter' = reqCounter (+) SetToBag({attrs[r]})
  /\ mpc' = [mpc EXCEPT ![r] = "latRecord"]
  /\ UNCHANGED <<sw, sink, called, attrs, invocations, errCounter, latencyHistogram>>
  /\ UNCHANGED <<ovars, tvars>>
  /\ UNCHANGED <<handlerCalls, sinkCalls, instruments>>

\* line 50: reqCounter.Add(ctx, 1, attrs)
ReqAdd(r) ==
  /\ mpc[r] = "reqAdd"
  /\ IF instruments["reqCounter"] = NilInstrument
       THEN /\ mpc' = [mpc EXCEPT ![r] = "panicked"]
            /\ UNCHANGED reqCounter
       ELSE /\ reqCounter' = Observe(instruments["reqCounter"], reqCounter, attrs[r])
            /\ mpc' = [mpc EXCEPT ![r] = "latRecord"]
  /\ UNCHANGED <<sw, sink, called, attrs, invocations, errCounter, latencyHistogram>>
  /\ UNCHANGED <<ovars, tvars>>
  /\ UNCHANGED <<handlerCalls, sinkCalls, instruments>>

\* variant of LatRecord: the latency is recorded without the captured status
LatRecordNoStatus(r) ==
  /\ mpc[r] = "latRecord"
  /\ \E ms \in 0 .. MaxElapsed :
        latencyHistogram' =
          Observe(instruments["latencyHistogram"], latencyHistogram,
                  [attrs |-> [attrs[r] EXCEPT !.status = StatusOK], value |-> ms])
  /\ mpc' = [mpc EXCEPT ![r] = "errAdd"]
  /\ UNCHANGED <<sw, sink, called, attrs, invocations, reqCounter, errCounter>>
  /\ UNCHANGED <<ovars, tvars>>
  /\ UNCHANGED <<handlerCalls, sinkCalls, instruments>>

\* line 51: latencyHistogram.Record(ctx, float64(time.Since(start).Milliseconds()), attrs)
LatRecord(r) ==
  /\ mpc[r] = "latRecord"
  /\ IF instruments["latencyHistogram"] = NilInstrument
       THEN /\ mpc' = [mpc EXCEPT ![r] = "panicked"]
            /\ UNCHANGED latencyHistogram
       ELSE /\ \E ms \in 0 .. MaxElapsed :
                  latencyHistogram' =
                    Observe(instruments["latencyHistogram"], latencyHistogram,
                            [attrs |-> attrs[r], value |-> ms])
            /\ mpc' = [mpc EXCEPT ![r] = "errAdd"]
  /\ UNCHANGED <<sw, sink, called, attrs, invocations, reqCounter, errCounter>>
  /\ UNCHANGED <<ovars, tvars>>
  /\ UNCHANGED <<handlerCalls, sinkCalls, instruments>>

\* lines 52-54: if sw.status >= 400 { errCounter.Add(ctx, 1, attrs) }
ErrAdd(r) ==
  /\ mpc[r] = "errAdd"
  /\ IF IsError(sw[r].status)
       THEN IF instruments["errCounter"] = NilInstrument
              THEN /\ mpc' = [mpc EXCEPT ![r] = "panicked"]
                   /\ UNCHANGED errCounter
              ELSE /\ errCounter' = Observe(instruments["errCounter"], errCounter, attrs[r])
                   /\ mpc' = [mpc EXCEPT ![r] = "done"]
       ELSE /\ mpc' = [mpc EXCEPT ![r] = "done"]
            /\ UNCHANGED errCounter
  /\ UNCHANGED <<sw, sink, called, attrs, invocations, reqCounter, latencyHistogram>>
  /\ UNCHANGED <<ovars, tvars>>
  /\ UNCHANGED <<handlerCalls, sinkCalls, instruments>>

\* overlapping requests, every instrument created
MNext ==
  \E r \in Reqs :
    \/ MwBegin(r)
    \/ WriteHeader(r) \/ Write(r) \/ HandlerReturn(r)
    \/ ReqAdd(r) \/ LatRecord(r) \/ ErrAdd(r)

\* the request that is followed call by call
Solo == 1

\* one request, its handler's calls logged one by one
SoloNext ==
  \/ MwBegin(Solo)
  \/ LoggedWriteHeader(Solo) \/ LoggedWrite(Solo) \/ LoggedHeader(Solo)
  \/ HandlerReturn(Solo)
  \/ ReqAdd(Solo) \/ LatRecord(Solo) \/ ErrAdd(Solo)

\* =========================================================================
\* InitTelemetry and the Shutdown closure (internal/httpx/otel.go)
\* =========================================================================
ServiceNames == {"acai-server", "other"}

ResourceErrs  == {"resource_err"}
MetricExpErrs == {"metric_exporter_err"}
TraceExpErrs  == {"trace_exporter_err"}
TraceShutdownErrs  == {"tp_flush_err", "tp_ctx_err"}
MetricShutdownErrs == {"mp_flush_err", "mp_ctx_err"}

\* the provider the otel package hands out before any Set...Provider call
DefaultProvider == [provider |-> "default", service |-> ""]

TInit ==
  /\ ipc = "resource"
  /\ serviceName \in ServiceNames
  /\ globalMeterProvider = DefaultProvider
  /\ globalTracerProvider = DefaultProvider
  /\ initRet = <<>>
  /\ spc = "idle"
  /\ shutCalls = 0
  /\ shutLog = <<>>
  /\ shutRet = <<>>

\* lines 21-30: res, err := resource.New(...); if err != nil { return nil, err }
NewResource ==
  /\ ipc = "resource"
  /\ \E e \in {Nil} \cup ResourceErrs :
        IF e # Nil
          THEN /\ initRet' = <<[shutdown |-> Nil, err |-> e]>>
               /\ ipc' = "returned"
          ELSE /\ ipc' = "metricExp"
               /\ UNCHANGED initRet
  /\ UNCHANGED <<serviceName, globalMeterProvider, globalTracerProvider,
                 spc, shutCalls, shutLog, shutRet>>
  /\ UNCHANGED <<ovars, mvars>>

\* lines 32-35: metricExp, err := stdoutmetric.New(...); if err != nil { return nil, err }
NewMetricExporter ==
  /\ ipc = "metricExp"
  /\ \E e \in {Nil} \cup MetricExpErrs :
        IF e # Nil
          THEN /\ initRet' = <<[shutdown |-> Nil, err |-> e]>>
               /\ ipc' = "returned"
          ELSE /\ ipc' = "setMeterProvider"
               /\ UNCHANGED initRet
  /\ UNCHANGED <<serviceName, globalMeterProvider, globalTracerProvider,
                 spc, shutCalls, shutLog, shutRet>>
  /\ UNCHANGED <<ovars, mvars>>

\* lines 36-42: reader, mp := ...; otel.SetMeterProvider(mp)
SetMeterProvider ==
  /\ ipc = "setMeterProvider"
  /\ globalMeterProvider' = [provider |-> "mp", service |-> serviceName]
  /\ ipc' = "traceExp"
  /\ UNCHANGED <<serviceName, globalTracerProvider, initRet,
                 spc, shutCalls, shutLog, shutRet>>
  /\ UNCHANGED <<ovars, mvars>>

\* lines 44-47: traceExp, err := stdouttrace.New(...); if err != nil { return nil, err }
NewTraceExporter ==
  /\ ipc = "traceExp"
  /\ \E e \in {Nil} \cup TraceExpErrs :
        IF e # Nil
          THEN /\ initRet' = <<[shutdown |-> Nil, err |-> e]>>
               /\ ipc' = "returned"
          ELSE /\ ipc' = "setTracerProvider"
               /\ UNCHANGED initRet
  /\ UNCHANGED <<serviceName, globalMeterProvider, globalTracerProvider,
                 spc, shutCalls, shutLog, shutRet>>
  /\ UNCHANGED <<ovars, mvars>>

\* lines 48-52: tp := ...; otel.SetTracerProvider(tp)
SetTracerProvider ==
  /\ ipc = "setTracerProvider"
  /\ globalTracerProvider' = [provider |-> "tp", service |-> serviceName]
  /\ ipc' = "return"
  /\ UNCHANGED <<serviceName, globalMeterProvider, initRet,
                 spc, shutCalls, shutLog, shutRet>>
  /\ UNCHANGED <<ovars, mvars>>

\* lines 54-61: return func(ctx) error {...}, nil
ReturnShutdown ==
  /\ ipc = "return"
  /\ initRet' = <<[shutdown |-> "closure", err |-> Nil]>>
  /\ ipc' = "returned"
  /\ UNCHANGED <<serviceName, globalMeterProvider, globalTracerProvider,
                 spc, shutCalls, shutLog, shutRet>>
  /\ UNCHANGED <<ovars, mvars>>

\* the caller invokes the closure InitTelemetry returned
ShutdownCall ==
  /\ ipc = "returned"
  /\ initRet # <<>>
  /\ initRet[1].shutdown # Nil
  /\ spc \in {"idle", "returned"}
  /\ shutCalls < MaxShutdownCalls
  /\ shutCalls' = shutCalls + 1
  /\ spc' = "tp"
  /\ UNCHANGED <<ipc, serviceName, globalMeterProvider, globalTracerProvider,
                 initRet, shutLog, shutRet>>
  /\ UNCHANGED <<ovars, mvars>>

\* line 59: does a failed tp.Shutdown end the closure
StopOnTraceError(e) == e # Nil

\* variant of ShutdownTrace: only the first invocation shuts the tracer
\* provider down, a later one goes to the meter provider at once
ShutdownTraceFirstCallOnly ==
  /\ spc = "tp"
  /\ IF shutCalls > 1
       THEN /\ spc' = "mp"
            /\ UNCHANGED <<shutLog, shutRet>>
       ELSE \E e \in {Nil} \cup TraceShutdownErrs :
              /\ shutLog' = Append(shutLog, [call |-> shutCalls, provider |-> "tp", err |-> e])
              /\ IF StopOnTraceError(e)
                   THEN /\ shutRet' = Append(shutRet, e)
                        /\ spc' = "returned"
                   ELSE /\ spc' = "mp"
                        /\ UNCHANGED shutRet
  /\ UNCHANGED <<ipc, serviceName, globalMeterProvider, globalTracerProvider,
                 initRet, shutCalls>>
  /\ UNCHANGED <<ovars, mvars>>

\* lines 57-59: if err := tp.Shutdown(ctx); err != nil { return err }
ShutdownTrace ==
  /\ spc = "tp"
  /\ \E e \in {Nil} \cup TraceShutdownErrs :
        /\ shutLog' = Append(shutLog, [call |-> shutCalls, provider |-> "tp", err |-> e])
        /\ IF StopOnTraceError(e)
             THEN /\ shutRet' = Append(shutRet, e)
                  /\ spc' = "returned"
             ELSE /\ spc' = "mp"
                  /\ UNCHANGED shutRet
  /\ UNCHANGED <<ipc, serviceName, globalMeterProvider, globalTracerProvider,
                 initRet, shutCalls>>
  /\ UNCHANGED <<ovars, mvars>>

\* variant of ShutdownMetric: the result of mp.Shutdown is dropped
ShutdownMetricSwallowed ==
  /\ spc = "mp"
  /\ \E e \in {Nil} \cup MetricShutdownErrs :
        /\ shutLog' = Append(shutLog, [call |-> shutCalls, provider |-> "mp", err |-> e])
        /\ shutRet' = Append(shutRet, Nil)
  /\ spc' = "returned"
  /\ UNCHANGED <<ipc, serviceName, globalMeterProvider, globalTracerProvider,
                 initRet, shutCalls>>
  /\ UNCHANGED <<ovars, mvars>>

\* line 60: return mp.Shutdown(ctx)
ShutdownMetric ==
  /\ spc = "mp"
  /\ \E e \in {Nil} \cup MetricShutdownErrs :
        /\ shutLog' = Append(shutLog, [call |-> shutCalls, provider |-> "mp", err |-> e])
        /\ shutRet' = Append(shutRet, e)
  /\ spc' = "returned"
  /\ UNCHANGED <<ipc, serviceName, globalMeterProvider, globalTracerProvider,
                 initRet, shutCalls>>
  /\ UNCHANGED <<ovars, mvars>>

TNext ==
  \/ NewResource \/ NewMetricExporter \/ SetMeterProvider
  \/ NewTraceExporter \/ SetTracerProvider \/ ReturnShutdown
  \/ ShutdownCall \/ ShutdownTrace \/ ShutdownMetric

\* =========================================================================
\* Specifications: one per component, the other components stay put
\* =========================================================================

\* the state of a component nobody has called yet
OIdle == OInit /\ conversation.Title = <<>>
TIdle == TInit /\ serviceName = "acai-server"

\* StartConversation
InitOrch == OInit /\ MInit /\ TIdle
SpecOrch == InitOrch /\ [][ONext]_vars

\* the three routines of StartConversation
TitleRoutine == TitleCall \/ TitleSend
ReplyRoutine == ReplyCall \/ ReplySend
Orchestrator == GoTitle \/ GoReply \/ RecvTitle \/ RecvReply \/ CheckReply \/ AssignTitle

\* StartConversation where Title and Reply return and the Go scheduler runs
\* every goroutine that can run
SpecOrchFair ==
  /\ InitOrch
  /\ [][ONext]_vars
  /\ WF_vars(TitleRoutine)
  /\ WF_vars(ReplyRoutine)
  /\ WF_vars(Orchestrator)

\* StartConversation with logical time
SpecTimed == InitOrch /\ [][TimedNext]_vars

\* MetricsMiddleware
InitMw == OIdle /\ MInit /\ TIdle
SpecMw == InitMw /\ [][MNext]_vars

\* MetricsMiddleware, one request followed call by call, after an init() in
\* which any of the instrument creations may have failed
InitSolo ==
  /\ OIdle /\ TIdle
  /\ \E failed \in SUBSET InstrumentNames : MInitWith(failed)
SpecSolo == InitSolo /\ [][SoloNext]_vars

\* InitTelemetry and Shutdown
InitTel == OIdle /\ MInit /\ TInit
SpecTel == InitTel /\ [][TNext]_vars

\* =========================================================================
\* Properties
\* =========================================================================

\* requests whose middleware closure is at one of the given positions
At(positions) == {r \in Reqs : mpc[r] \in positions}

\* number of elements of a bag
BagSize(B) == IF B = EmptyBag THEN 0 ELSE BagCardinality(B)

Joined == opc \in {"check", "returned", "assign", "assigned"}
\* the orchestrating routine has taken one of its two exits
Finished == opc \in {"returned", "assigned"}

\* empty or made of white space only
Blank(str) == \A i \in 1 .. Len(str) : str[i] \in {" ", "\t"}

\* C3: when Reply returned an error, the orchestration ends with that error
\* wrapped as an internal error and no conversation, whatever Title returned
\* and whichever goroutine delivered first, and conversation.Title is never
\* written.
C3_ReplyErrorIsTerminal ==
  (replyOut.err # Nil) =>
    /\ opc # "assign" /\ opc # "assigned"
    /\ convWrites = <<>>
    /\ Finished =>
          startRet = <<[conv |-> Nil, err |-> [code |-> "internal", cause |-> replyOut.err]]>>

C3_Witness ==
  /\ opc = "returned"
  /\ replyOut.err # Nil /\ replyOut.val # <<>>
  /\ titleOut.err = Nil /\ ~Blank(titleOut.val)
  /\ delivered = <<"replyCh", "titleCh">>

\* C4: when Title returned an error or a blank string and Reply succeeded,
\* the orchestration ends without error, conversation.Title is the fallback
\* "Untitled conversation" and reply is what Reply returned; an error return
\* only ever comes from Reply.
C4_TitleFallback ==
  /\ (Finished /\ replyOut.err = Nil /\ (titleOut.err # Nil \/ Blank(titleOut.val))) =>
        /\ opc = "assigned"
        /\ startRet = <<>>
        /\ conversation.Title = <<"Untitled", " ", "conversation">>
        /\ reply = replyOut.val
  /\ (startRet # <<>>) => replyOut.err # Nil

C4_Witness ==
  /\ opc = "assigned"
  /\ titleOut.err = Nil /\ titleOut.val = <<" ", "\t">>
  /\ conversation.Title = UntitledConversation
  /\ reply = <<"a">>

\* C5: when Title returned a non-blank string without error and Reply
\* succeeded, the orchestration ends without error and conversation.Title and
\* reply are exactly the strings the two calls returned.
C5_BothSucceedUnmodified ==
  (Finished /\ replyOut.err = Nil /\ titleOut.err = Nil /\ ~Blank(titleOut.val)) =>
    /\ opc = "assigned"
    /\ startRet = <<>>
    /\ conversation.Title = titleOut.val
    /\ reply = replyOut.val

C5_Witness ==
  /\ opc = "assigned"
  /\ titleOut.err = Nil /\ titleOut.val = <<" ", "a">>
  /\ conversation.Title = <<" ", "a">>
  /\ delivered = <<"replyCh", "titleCh">>

\* C6: the orchestrating routine is past the join (at the test of the reply
\* error, at the assignment of the title, or returned) only when both
\* goroutines have sent their value on their channel.
C6_JoinWaitsForBoth ==
  Joined =>
    /\ tpc = "done" /\ rpc = "done"
    /\ Len(delivered) = 2
    /\ title = TitleToSend(titleOut.val, titleOut.err)
    /\ replyResult = replyOut

C6_Witness ==
  /\ opc = "check"
  /\ replyResult.err # Nil
  /\ delivered = <<"replyCh", "titleCh">>

\* the shutdowns attempted by invocation n of the closure, in order
AttemptsOf(n) == SelectSeq(shutLog, LAMBDA a : a.call = n)

\* C7: every completed invocation of the Shutdown closure has attempted
\* tp.Shutdown and then mp.Shutdown, also when tp.Shutdown failed.
C7_BothShutdownsAttempted ==
  \A n \in 1 .. Len(shutRet) :
    /\ Len(AttemptsOf(n)) = 2
    /\ AttemptsOf(n)[1].provider = "tp"
    /\ AttemptsOf(n)[2].provider = "mp"

\* the first error in a sequence of attempts, Nil if none failed
RECURSIVE FirstError(_)
FirstError(as) ==
  IF as = <<>> THEN Nil
  ELSE IF Head(as).err # Nil THEN Head(as).err ELSE FirstError(Tail(as))

\* C8: a completed invocation of the Shutdown closure returns a non-nil error
\* iff one of the provider shutdowns it ran failed, and the error is the first
\* failure in trace-then-metric order.
C8_ShutdownSurfacesFirstError ==
  \A n \in 1 .. Len(shutRet) :
    /\ (shutRet[n] # Nil) <=> (\E i \in 1 .. Len(AttemptsOf(n)) : AttemptsOf(n)[i].err # Nil)
    /\ shutRet[n] = FirstError(AttemptsOf(n))
    /\ AttemptsOf(n)[1].provider = "tp"
    /\ (AttemptsOf(n)[1].err # Nil) => shutRet[n] = AttemptsOf(n)[1].err

C8_Witness ==
  /\ Len(shutRet) = 2
  /\ shutRet[1] \in TraceShutdownErrs
  /\ shutRet[2] \in MetricShutdownErrs

\* C9: when InitTelemetry has returned an error, the Shutdown it returned is
\* nil and neither provider it created is installed as the process default.
C9_NoGlobalStateOnInitError ==
  (initRet # <<>> /\ initRet[1].err # Nil) =>
    /\ initRet[1].shutdown = Nil
    /\ globalMeterProvider = DefaultProvider
    /\ globalTracerProvider = DefaultProvider

\* the handler of request r never called WriteHeader
NeverWroteHeader(r) == "WriteHeader" \notin called[r]

\* C10: when the handler returned without calling WriteHeader, with or
\* without body writes, the status in the attributes is 200 and the request
\* adds nothing to the error counter.
C10_DefaultStatus200 ==
  \A r \in Reqs :
    (mpc[r] \in {"reqAdd", "latRecord", "errAdd", "done"} /\ NeverWroteHeader(r)) =>
      /\ attrs[r].status = 200
      /\ CopiesIn(attrs[r], errCounter) = 0

C10_Witness ==
  /\ \E r \in At({"done"}) : called[r] = {} /\ attrs[r].status = 200
  /\ \E r \in At({"done"}) : called[r] = {"Write"} /\ attrs[r].status = 200

\* the state of the wrapped writer after the given calls made on it directly
RECURSIVE DirectSink(_)
DirectSink(calls) ==
  IF calls = <<>> THEN NewSink
  ELSE LET before == DirectSink(SubSeq(calls, 1, Len(calls) - 1))
           last   == calls[Len(calls)]
       IN  IF last[1] = "WriteHeader" THEN SinkWriteHeader(before, last[2])
           ELSE IF last[1] = "Write" THEN SinkWrite(before)
           ELSE before

\* C11: the wrapped writer receives exactly the calls the handler makes, with
\* the same arguments and in the same order, and is in the state these calls
\* would have put it in without the middleware; the middleware adds no call
\* of its own and enters the wrapped handler once.
C11_PurelyObservational ==
  \A r \in Reqs :
    /\ sinkCalls[r] = handlerCalls[r]
    /\ sink[r] = DirectSink(handlerCalls[r])
    /\ invocations[r] = IF mpc[r] = "idle" THEN 0 ELSE 1

C11_Witness ==
  /\ mpc[Solo] = "done"
  /\ handlerCalls[Solo] = <<<<"WriteHeader", 400>>, <<"Write", "body">>>>
  /\ sinkCalls[Solo] = <<<<"WriteHeader", 400>>, <<"Write", "body">>>>
  /\ invocations[Solo] = 1

\* the attribute sets of the observations of the latency histogram
AttrsOf(histogram) == {o.attrs : o \in BagToSet(histogram)}

\* C12: the attribute set of a request is built once, from its method, its
\* path and the captured status, and this one set is what the request
\* counter, the latency histogram and the error counter are given.
C12_SameAttributeSet ==
  /\ \A r \in At({"reqAdd", "latRecord", "errAdd", "done"}) :
        attrs[r] = [method |-> Method(r), route |-> Path(r), status |-> sw[r].status]
  /\ BagToSet(reqCounter) = {attrs[r] : r \in At({"latRecord", "errAdd", "done"})}
  /\ AttrsOf(latencyHistogram) = {attrs[r] : r \in At({"errAdd", "done"})}
  /\ BagToSet(errCounter) = {attrs[r] : r \in {q \in At({"done"}) : attrs[q].status >= 400}}

C12_Witness ==
  \E r \in At({"done"}) :
    /\ attrs[r].status = 400
    /\ BagIn(attrs[r], reqCounter)
    /\ BagIn(attrs[r], errCounter)
    /\ attrs[r] \in AttrsOf(latencyHistogram)

C17_RecordedStatusIsClientStatus ==
  \A r \in At({"reqAdd", "latRecord", "errAdd", "done"}) :
    attrs[r].status = ClientStatus(sink[r])

\* what belongs to request r alone
Local(r) == <<mpc[r], sw[r], sink[r], called[r], attrs[r], invocations[r]>>

\* C20: a step changes the writer, the position and the attributes of one
\* request at most, and the attributes a request records are made of its own
\* method, its own path and the status of its own writer; the three
\* instruments are all that requests share.
C20_NoInterference ==
  [][/\ Cardinality({r \in Reqs : Local(r)' # Local(r)}) <= 1
     /\ \A r \in Reqs :
          (mpc[r] = "serving" /\ mpc'[r] = "reqAdd") =>
            attrs'[r] = [method |-> Method(r), route |-> Path(r), status |-> sw[r].status]
     /\ \A r \in Reqs :
          (mpc[r] # "serving") => (sw'[r] = sw[r] \/ mpc[r] = "idle")]_vars

C20_Witness ==
  /\ At({"done"}) = Reqs
  /\ attrs[1] = [method |-> "GET", route |-> "/a", status |-> 400]
  /\ attrs[2] = [method |-> "POST", route |-> "/b", status |-> 200]

\* C14: the concurrent StartConversation behaves as the sequential one did on
\* the same outcomes of Title and Reply: it returns an error exactly when the
\* sequential version does, and otherwise ends with the same conversation
\* title and the same reply.
C14_SameAsSequential ==
  Finished =>
    LET seq == StartConversationSequential(conversation0, titleOut, replyOut)
    IN  /\ seq.failed <=> (opc = "returned")
        /\ ~seq.failed => /\ conversation.Title = seq.title
                          /\ reply = seq.reply

\* C15: Title and Reply run in parallel: both goroutines are started before
\* the orchestrator waits on a channel, the reply goroutine is started at the
\* time the title goroutine was (it does not wait for Title to return), and
\* with Title taking 100 and Reply 150 units the orchestration is over at
\* max(100, 150) = 150, not at 100 + 150 = 250.
C15_ParallelNotSequential ==
  /\ opc \notin {"goTitle", "goReply"} => (tpc # "idle" /\ rpc # "idle")
  /\ rpc # "idle" => (replyStart = titleStart /\ tpc # "idle")
  /\ Finished => /\ now = Max(TitleLatency, ReplyLatency)
                 /\ now < TitleLatency + ReplyLatency

C15_Witness ==
  /\ opc = "assigned"
  /\ now = 150
  /\ titleStart = 0
  /\ replyStart = 0

\* C16: an invocation of the Shutdown closure made after an earlier one has
\* completed does not crash: it can always go on to its return, it returns
\* nil or an error, and it runs tp.Shutdown first and mp.Shutdown, if at all,
\* after it.
C16_SecondShutdownReturns ==
  /\ spc \in {"idle", "tp", "mp", "returned"}
  /\ (shutCalls >= 2 /\ spc \in {"tp", "mp"}) => ENABLED (ShutdownTrace \/ ShutdownMetric)
  /\ (shutCalls >= 2 /\ spc = "returned") => Len(shutRet) = shutCalls
  /\ \A i \in 1 .. Len(shutLog) - 1 : shutLog[i].call <= shutLog[i + 1].call
  /\ \A n \in 2 .. Len(shutRet) :
        LET attempts == AttemptsOf(n)
        IN  /\ Len(attempts) \in {1, 2}
            /\ attempts[1].provider = "tp"
            /\ Len(attempts) = 2 => (attempts[2].provider = "mp" /\ attempts[1].err = Nil)
            /\ shutRet[n] \in {Nil} \cup TraceShutdownErrs \cup MetricShutdownErrs

C16_Witness ==
  /\ Len(shutRet) = 2
  /\ spc = "returned"
  /\ shutRet[2] = Nil
  /\ Len(AttemptsOf(2)) = 2

\* both results have been taken off the channels by the orchestrator
BothReceived ==
  /\ opc \in {"check", "returned", "assign", "assigned"}
  /\ Len(delivered) = 2
  /\ titleCh = <<>>
  /\ replyCh = <<>>

\* C18 as stated: an orchestration that is over has written the conversation
\* exactly once, the write was the orchestrator's and came after both results
\* were received.
C18_WrittenExactlyOnce ==
  /\ Finished => convWrites = <<"orchestrator">>
  /\ convWrites # <<>> => BothReceived

\* C18 amended: the conversation is written at most once, by the orchestrator
\* only and only after both results were received: exactly once when the reply
\* succeeded, not at all when the reply failed; until that write the
\* conversation is the one the call was entered with, so that a sub-operation,
\* which ends before the write, never reads it while it is written.
C18_WrittenAtMostOnce ==
  /\ convWrites \in {<<>>, <<"orchestrator">>}
  /\ convWrites # <<>> => (BothReceived /\ tpc = "done" /\ rpc = "done")
  /\ opc = "assign" => (BothReceived /\ tpc = "done" /\ rpc = "done")
  /\ convWrites = <<>> => conversation = conversation0
  /\ opc = "assigned" <=> convWrites = <<"orchestrator">>
  /\ opc = "assigned" => ~ReplyFailed(replyResult)
  /\ opc = "returned" => (convWrites = <<>> /\ ReplyFailed(replyResult))

C18_Witness ==
  /\ opc = "assigned"
  /\ convWrites = <<"orchestrator">>
  /\ conversation # conversation0
  /\ delivered = <<"replyCh", "titleCh">>

\* how many values were sent on channel ch
SentOn(ch) == Len(SelectSeq(delivered, LAMBDA c : c = ch))

\* a goroutine about to send finds room on its channel, and a goroutine that
\* is over has sent one value, whatever Title or Reply returned
SendsNeverBlock ==
  /\ tpc = "send" => Len(titleCh) < ChanCap
  /\ rpc = "send" => Len(replyCh) < ChanCap
  /\ Len(titleCh) <= ChanCap
  /\ Len(replyCh) <= ChanCap
  /\ SentOn("titleCh") = (IF tpc = "done" THEN 1 ELSE 0)
  /\ SentOn("replyCh") = (IF rpc = "done" THEN 1 ELSE 0)

\* the orchestrator has returned, nothing is left on a channel and both
\* goroutines are over
Drained ==
  /\ Finished
  /\ titleCh = <<>>
  /\ replyCh = <<>>
  /\ tpc = "done"
  /\ rpc = "done"
  /\ SentOn("titleCh") = 1
  /\ SentOn("replyCh") = 1

\* C19: no send ever blocks and each goroutine sends one value on its own
\* channel on every path; when Title and Reply return, the orchestrator
\* eventually returns with both channels empty and both goroutines over, and
\* stays so, also when the reply failed.
C19_RendezvousTerminates ==
  /\ []SendsNeverBlock
  /\ <>[]Drained
  /\ [](ReplyFailed(replyOut) => <>(Drained /\ opc = "returned"))

C19_Witness ==
  /\ Drained
  /\ opc = "returned"
  /\ titleOut.err # Nil
  /\ replyOut.err # Nil
====
